---- MODULE Spec2Model ----
(***************************************************************************)
(* Model of packages/check/src/main.rs (cosmwasm-check): the command line  *)
(* is parsed, the (WasmLimits, capability set) policy is resolved, every   *)
(* WASM path is run through check_contract, and the outcomes are reported. *)
(*                                                                         *)
(* Strings that the program takes apart (the capability CSV) are sequences *)
(* of one-character strings.  A path is the sequence of its components.    *)
(* An Option is a sequence of length 0 (None) or 1 (Some).                 *)
(***************************************************************************)
EXTENDS Integers, Sequences, FiniteSets, TLC

(***************************************************************************)
(* Bounds of the model.                                                    *)
(***************************************************************************)
MaxFiles == 2
MaxCsvLen == 3

None == <<>>
Some(x) == <<x>>
IsSome(o) == Len(o) = 1
Unwrap(o) == o[1]

Range(s) == {s[i] : i \in 1..Len(s)}

SeqsUpTo(S, n) == UNION {[1..k -> S] : k \in 0..n}

(***************************************************************************)
(* const DEFAULT_AVAILABLE_CAPABILITIES: &str                              *)
(***************************************************************************)
DEFAULT_AVAILABLE_CAPABILITIES ==
       <<"i","t","e","r","a","t","o","r",",">>
    \o <<"s","t","a","k","i","n","g",",">>
    \o <<"s","t","a","r","g","a","t","e",",">>
    \o <<"c","o","s","m","w","a","s","m","_","1","_","1",",">>
    \o <<"c","o","s","m","w","a","s","m","_","1","_","2",",">>
    \o <<"c","o","s","m","w","a","s","m","_","1","_","3",",">>
    \o <<"c","o","s","m","w","a","s","m","_","1","_","4",",">>
    \o <<"c","o","s","m","w","a","s","m","_","2","_","0",",">>
    \o <<"c","o","s","m","w","a","s","m","_","2","_","1">>

(***************************************************************************)
(* The engine crate (cosmwasm_vm) and the other libraries the program      *)
(* calls.                                                                  *)
(***************************************************************************)

\* str::split(','): the pieces between the commas, empty pieces included.
\* Piece k lies after comma k-1 (or the start) and before comma k (or the
\* end).
Split(csv) ==
    LET commas == {i \in 1..Len(csv) : csv[i] = ","}
        comma(k) ==
            IF k = 0 THEN 0
            ELSE IF k > Cardinality(commas) THEN Len(csv) + 1
            ELSE CHOOSE i \in commas :
                     Cardinality({j \in commas : j < i}) = k - 1
    IN  [k \in 1..(Cardinality(commas) + 1) |->
            SubSeq(csv, comma(k - 1) + 1, comma(k) - 1)]

\* cosmwasm_vm::capabilities_from_csv: the CSV split on commas, as a set.
capabilities_from_csv(csv) == Range(Split(csv))

\* WasmLimits::default()
WasmLimitsDefault == [initial_memory_limit_pages |-> 2]

\* The Config values a configuration file of the model may encode.
Configs ==
    { [wasm_limits |-> [initial_memory_limit_pages |-> 3],
       cache |-> [available_capabilities |-> {<<"a">>, <<"b">>}]],
      [wasm_limits |-> [initial_memory_limit_pages |-> 1],
       cache |-> [available_capabilities |-> {}]] }

\* The contents a WASM file of the model may have: what the module requires
\* of the chain, how much memory it asks for, and whether the compiler
\* accepts it.
WasmBlobs ==
    { [fmt |-> "wasm", required |-> {}, pages |-> 1, compiles |-> TRUE],
      [fmt |-> "wasm", required |-> {<<"a">>}, pages |-> 2, compiles |-> TRUE],
      [fmt |-> "wasm", required |-> {}, pages |-> 1, compiles |-> FALSE] }

\* The contents a configuration file of the model may have.
ConfigBlobs ==
    {[fmt |-> "msgpack", config |-> c] : c \in Configs}
        \cup {[fmt |-> "garbage"]}

\* What a path names: nothing, a directory (it opens, reading it fails), or
\* a regular file with its bytes.
Missing == [kind |-> "missing"]
Directory == [kind |-> "dir"]
RegularFile(bytes) == [kind |-> "file", bytes |-> bytes]

WasmFileStates == {Missing, Directory} \cup {RegularFile(b) : b \in WasmBlobs}
ConfigFileStates == {Missing} \cup {RegularFile(b) : b \in ConfigBlobs}

\* anyhow::Result<()>
Ok == [ok |-> TRUE]
Err(kind, msg) == [ok |-> FALSE, kind |-> kind, msg |-> msg]

\* rmp_serde::from_read: the Config the bytes encode, or a decode error.
from_read(bytes) ==
    IF bytes.fmt = "msgpack" THEN [ok |-> TRUE, value |-> bytes.config]
    ELSE Err("DecodeError", "error parsing config file")

\* cosmwasm_vm::internals::check_wasm_with_limits: the static validation of
\* the bytes against the capability set and the limits.  The logger is given
\* the diagnostics and has no part in the verdict.
check_wasm_with_limits(wasm, available_capabilities, wasm_limits, logs) ==
    IF ~(wasm.required \subseteq available_capabilities)
    THEN Err("ValidationError",
             "Error during static Wasm validation: Wasm contract requires unavailable capabilities")
    ELSE IF wasm.pages > wasm_limits.initial_memory_limit_pages
    THEN Err("ValidationError",
             "Error during static Wasm validation: Wasm contract memory's minimum must not exceed the limit")
    ELSE Ok

\* What check_wasm_with_limits hands to its logger.
ValidationLog(logs) ==
    IF logs.on THEN <<[kind |-> "log", prefix |-> logs.prefix, output |-> logs.output]>>
    ELSE <<>>

\* cosmwasm_vm::internals::compile
compile(engine, wasm) ==
    IF wasm.compiles THEN Ok
    ELSE Err("CompileError", "Error compiling Wasm: Could not compile")

\* Path::file_name: the last component, unless the path ends in "..".
file_name(path) ==
    IF Len(path) = 0 \/ path[Len(path)] = ".." THEN None
    ELSE Some(path[Len(path)])

(***************************************************************************)
(* The inputs of a run.                                                    *)
(***************************************************************************)
WasmPaths == {<<"a.wasm">>, <<"d", "b.wasm">>}
ConfigPath == <<"wasm.cfg">>

CsvAlphabet == {"a", ","}
CsvInputs == SeqsUpTo(CsvAlphabet, MaxCsvLen)

\* The command lines of the model: --wasm-config, --available-capabilities,
\* --verbose and the WASM paths.
CommandLines ==
    [ CONFIG : {None, Some(ConfigPath)},
      CAPABILITIES : {None} \cup {Some(c) : c \in CsvInputs},
      VERBOSE : BOOLEAN,
      WASM : SeqsUpTo(WasmPaths, MaxFiles) ]

\* The file systems a command line can meet: a state for each path it names.
FileSystems(cl) ==
    LET named == Range(cl.WASM) \cup Range(cl.CONFIG)
    IN  { f \in [named -> WasmFileStates \cup ConfigFileStates] :
            \A p \in named :
                IF p = ConfigPath THEN f[p] \in ConfigFileStates
                ELSE f[p] \in WasmFileStates }

VARIABLES
    args,       \* the command line of the current run
    fs,         \* the file system
    pc,         \* the position of main
    exit_code,  \* None while the process runs, Some(code) once it has ended
    wasm_limits,            \* Option: the resolved WasmLimits
    available_capabilities, \* Option: the resolved capability set
    idx,        \* position of the paths iterator (the file being checked)
    wasm,       \* Option: check_contract's buffer with the bytes read
    engine,     \* Option: check_contract's compiling engine
    result,     \* Option: the closure's result for the current file
    passes,     \* the results partition has put among the passes
    failures,   \* the results partition has put among the failures
    stdout,     \* the lines printed
    stderr,     \* the lines written to the error stream
    outcomes,   \* history: what the closure returned for each file, in order
    calls,      \* history: the calls made to the libraries, in order
    engines,    \* history: the number of engines created by this process
    run,        \* 1 for the first run, 2 for the second run on the same inputs
    prev        \* Option: what the first run showed, kept for the second

vars == <<args, fs, pc, exit_code, wasm_limits, available_capabilities, idx,
          wasm, engine, result, passes, failures, stdout, stderr, outcomes,
          calls, engines, run, prev>>

\* The state of a process that has just been started.
Fresh ==
    /\ pc = "start"
    /\ exit_code = None
    /\ wasm_limits = None
    /\ available_capabilities = None
    /\ idx = 0
    /\ wasm = None
    /\ engine = None
    /\ result = None
    /\ passes = <<>>
    /\ failures = <<>>
    /\ stdout = <<>>
    /\ stderr = <<>>
    /\ outcomes = <<>>
    /\ calls = <<>>
    /\ engines = 0

Init ==
    /\ args \in CommandLines
    /\ fs \in FileSystems(args)
    /\ Fresh
    /\ run = 1
    /\ prev = None

\* std::process::exit and the ways main ends.
Exit(code) ==
    /\ pc' = "exited"
    /\ exit_code' = Some(code)

\* The argument rules without required(true) on WASM.
UsageErrorNotRequired(cl) == IsSome(cl.CONFIG) /\ IsSome(cl.CAPABILITIES)

\* The argument rules without conflicts_with("CAPABILITIES").
UsageErrorNoConflict(cl) == cl.WASM = <<>>

\* Command::get_matches: a command line that breaks the declared argument
\* rules is a usage error, reported on the error stream with exit code 2.
UsageError(cl) ==
    \/ IsSome(cl.CONFIG) /\ IsSome(cl.CAPABILITIES)
    \/ cl.WASM = <<>>

GetMatches ==
    /\ pc = "start"
    /\ IF UsageError(args)
       THEN /\ Exit(2)
            /\ stderr' = Append(stderr, [kind |-> "usage"])
       ELSE /\ pc' = "resolve"
            /\ UNCHANGED <<exit_code, stderr>>
    /\ UNCHANGED <<args, fs, wasm_limits, available_capabilities, idx, wasm,
                   engine, result, passes, failures, stdout, calls, engines,
                   run, prev, outcomes>>

\* A read_config that falls back to a default Config on any error.
read_config_or_default(path) ==
    IF fs[path].kind = "missing" \/ ~from_read(fs[path].bytes).ok
    THEN [ok |-> TRUE,
          value |-> [wasm_limits |-> WasmLimitsDefault,
                     cache |-> [available_capabilities |-> {}]]]
    ELSE from_read(fs[path].bytes)

\* fn read_config: open the file, decode it.
read_config(path) ==
    IF fs[path].kind = "missing"
    THEN Err("IoError", "error opening config file")
    ELSE from_read(fs[path].bytes)

\* A policy match that takes the capabilities of the configuration file but
\* leaves the limits at their default.
ResolvedPolicyDefaultLimits(cl) ==
    IF IsSome(cl.CONFIG)
    THEN LET config == read_config(Unwrap(cl.CONFIG)).value
         IN  <<WasmLimitsDefault, config.cache.available_capabilities>>
    ELSE <<WasmLimitsDefault,
           capabilities_from_csv(
               IF IsSome(cl.CAPABILITIES) THEN Unwrap(cl.CAPABILITIES)
               ELSE DEFAULT_AVAILABLE_CAPABILITIES)>>

\* A policy match that never looks at --available-capabilities.
ResolvedPolicyIgnoresCsv(cl) ==
    IF IsSome(cl.CONFIG)
    THEN LET config == read_config(Unwrap(cl.CONFIG)).value
         IN  <<config.wasm_limits, config.cache.available_capabilities>>
    ELSE <<WasmLimitsDefault,
           capabilities_from_csv(DEFAULT_AVAILABLE_CAPABILITIES)>>

\* The policy match of main: from the configuration file when one is given,
\* else from the capability CSV (or the default list) and the default limits.
ResolvedPolicy(cl) ==
    IF IsSome(cl.CONFIG)
    THEN LET config == read_config(Unwrap(cl.CONFIG)).value
         IN  <<config.wasm_limits, config.cache.available_capabilities>>
    ELSE <<WasmLimitsDefault,
           capabilities_from_csv(
               IF IsSome(cl.CAPABILITIES) THEN Unwrap(cl.CAPABILITIES)
               ELSE DEFAULT_AVAILABLE_CAPABILITIES)>>

\* The calls the policy match makes: read_config opens the file and, when
\* that succeeds, decodes it; the other arm parses a CSV.
ResolveCalls(cl) ==
    IF IsSome(cl.CONFIG)
    THEN <<[fn |-> "File::open", idx |-> 0, path |-> Unwrap(cl.CONFIG)]>>
         \o IF fs[Unwrap(cl.CONFIG)].kind = "missing" THEN <<>>
            ELSE <<[fn |-> "rmp_serde::from_read", idx |-> 0]>>
    ELSE <<[fn |-> "capabilities_from_csv", idx |-> 0]>>

\* main, lines 68-80.  read_config(..).unwrap() panics on an error: the
\* panic message goes to the error stream and the process ends with 101.
ResolvePolicy ==
    /\ pc = "resolve"
    /\ calls' = calls \o ResolveCalls(args)
    /\ IF IsSome(args.CONFIG) /\ ~read_config(Unwrap(args.CONFIG)).ok
       THEN /\ Exit(101)
            /\ stderr' = Append(stderr,
                   [kind |-> "panic",
                    msg |-> read_config(Unwrap(args.CONFIG)).msg])
            /\ UNCHANGED <<wasm_limits, available_capabilities>>
       ELSE /\ wasm_limits' = Some(ResolvedPolicy(args)[1])
            /\ available_capabilities' = Some(ResolvedPolicy(args)[2])
            /\ pc' = "print_capabilities"
            /\ UNCHANGED <<exit_code, stderr>>
    /\ UNCHANGED <<args, fs, idx, wasm, engine, result, passes, failures,
                   stdout, engines, run, prev, outcomes>>

\* A main that starts on the files without printing the capability set.
PrintCapabilitiesSilent ==
    /\ pc = "print_capabilities"
    /\ IF args.WASM = <<>>
       THEN /\ Exit(101)
            /\ stderr' = Append(stderr,
                   [kind |-> "panic", msg |-> "Error parsing file names"])
            /\ UNCHANGED idx
       ELSE /\ pc' = "open"
            /\ idx' = 1
            /\ UNCHANGED <<exit_code, stderr>>
    /\ UNCHANGED <<args, fs, wasm_limits, available_capabilities, wasm,
                   engine, result, passes, failures, calls, engines, run,
                   prev, outcomes, stdout>>

\* main, lines 81-87: print the capability set and a blank line, then start
\* the iteration over the paths.  get_many gives None for an argument that
\* is absent, and .expect("Error parsing file names") panics on it.
PrintCapabilities ==
    /\ pc = "print_capabilities"
    /\ stdout' = stdout \o
           << [kind |-> "capabilities", set |-> Unwrap(available_capabilities)],
              [kind |-> "blank"] >>
    /\ IF args.WASM = <<>>
       THEN /\ Exit(101)
            /\ stderr' = Append(stderr,
                   [kind |-> "panic", msg |-> "Error parsing file names"])
            /\ UNCHANGED idx
       ELSE /\ pc' = "open"
            /\ idx' = 1
            /\ UNCHANGED <<exit_code, stderr>>
    /\ UNCHANGED <<args, fs, wasm_limits, available_capabilities, wasm,
                   engine, result, passes, failures, calls, engines, run,
                   prev, outcomes>>

\* The path the iterator is at.
Path == args.WASM[idx]

\* check_contract, line 139: File::open(path)?
OpenWasm ==
    /\ pc = "open"
    /\ calls' = Append(calls, [fn |-> "File::open", idx |-> idx, path |-> Path])
    /\ IF fs[Path].kind = "missing"
       THEN /\ result' = Some(Err("IoError", "No such file or directory (os error 2)"))
            /\ pc' = "report"
       ELSE /\ pc' = "read"
            /\ UNCHANGED result
    /\ UNCHANGED <<args, fs, exit_code, wasm_limits, available_capabilities,
                   idx, wasm, engine, passes, failures, stdout, stderr,
                   engines, run, prev, outcomes>>

\* A check_contract that drops the result of read_to_end and goes on with
\* whatever the buffer holds.
ReadWasmIgnoresError ==
    /\ pc = "read"
    /\ calls' = Append(calls, [fn |-> "read_to_end", idx |-> idx, path |-> Path])
    /\ wasm' = IF fs[Path].kind = "dir"
               THEN Some([fmt |-> "wasm", required |-> {}, pages |-> 1,
                          compiles |-> FALSE])
               ELSE Some(fs[Path].bytes)
    /\ pc' = "check_wasm"
    /\ UNCHANGED <<args, fs, exit_code, wasm_limits, available_capabilities,
                   idx, engine, result, passes, failures, stdout, stderr,
                   engines, run, prev, outcomes>>

\* check_contract, lines 142-143: file.read_to_end(&mut wasm)?
ReadWasm ==
    /\ pc = "read"
    /\ calls' = Append(calls, [fn |-> "read_to_end", idx |-> idx, path |-> Path])
    /\ IF fs[Path].kind = "dir"
       THEN /\ result' = Some(Err("IoError", "Is a directory (os error 21)"))
            /\ pc' = "report"
            /\ UNCHANGED wasm
       ELSE /\ wasm' = Some(fs[Path].bytes)
            /\ pc' = "check_wasm"
            /\ UNCHANGED result
    /\ UNCHANGED <<args, fs, exit_code, wasm_limits, available_capabilities,
                   idx, engine, passes, failures, stdout, stderr, engines,
                   run, prev, outcomes>>

\* check_contract, lines 146-150: the prefix of the log lines.
filename_identifier(path) ==
    IF IsSome(file_name(path)) THEN Unwrap(file_name(path)) ELSE path

Prefix(path) == <<"    ", filename_identifier(path), ": ">>

\* A check_contract that always hands over the enabled logger.
LogsAlwaysOn(verbose, prefix) ==
    [on |-> TRUE, prefix |-> prefix, output |-> "StdErr"]

\* check_contract, lines 151-158: the logger handed to the validation.
Logs(verbose, prefix) ==
    IF verbose THEN [on |-> TRUE, prefix |-> prefix, output |-> "StdErr"]
    ELSE [on |-> FALSE]

\* A check_contract that validates against the default limits.
CheckWasmArgsDefaultLimits ==
    [ wasm |-> Unwrap(wasm),
      available_capabilities |-> Unwrap(available_capabilities),
      wasm_limits |-> WasmLimitsDefault,
      logs |-> Logs(args.VERBOSE, Prefix(Path)) ]

\* check_contract, line 160: the arguments of check_wasm_with_limits.
\* main hands check_contract the resolved policy and the VERBOSE flag.
CheckWasmArgs ==
    [ wasm |-> Unwrap(wasm),
      available_capabilities |-> Unwrap(available_capabilities),
      wasm_limits |-> Unwrap(wasm_limits),
      logs |-> Logs(args.VERBOSE, Prefix(Path)) ]

\* A check_contract that drops the validation's verdict and compiles anyway.
AfterValidationIgnored(v) == "make_engine"

\* The step check_contract takes after the validation returned v.
AfterValidation(v) == IF v.ok THEN "make_engine" ELSE "report"

\* check_contract, line 160: check_wasm_with_limits(..)?
CheckWasm ==
    /\ pc = "check_wasm"
    /\ LET a == CheckWasmArgs
           v == check_wasm_with_limits(a.wasm, a.available_capabilities,
                                       a.wasm_limits, a.logs)
       IN  /\ calls' = Append(calls,
                   [fn |-> "check_wasm_with_limits", idx |-> idx, args |-> a])
           /\ stderr' = stderr \o ValidationLog(a.logs)
           /\ pc' = AfterValidation(v)
           /\ IF AfterValidation(v) = "report"
              THEN result' = Some(v) /\ wasm' = None
              ELSE UNCHANGED <<result, wasm>>
    /\ UNCHANGED <<args, fs, exit_code, wasm_limits, available_capabilities,
                   idx, engine, passes, failures, stdout, engines, run, prev, outcomes>>

\* The engine make_compiling_engine returns when k engines exist already: a
\* new one.
NewEngine(k) == k + 1

\* A check_contract that compiles on one engine kept for the whole run.
MakeEngineShared ==
    /\ pc = "make_engine"
    /\ engine' = Some(1)
    /\ engines' = 1
    /\ calls' = Append(calls,
           [fn |-> "make_compiling_engine", idx |-> idx, engine |-> 1])
    /\ pc' = "compile"
    /\ UNCHANGED <<args, fs, exit_code, wasm_limits, available_capabilities,
                   idx, wasm, result, passes, failures, stdout, stderr, run,
                   prev, outcomes>>

\* check_contract, line 163: make_compiling_engine(None)
MakeEngine ==
    /\ pc = "make_engine"
    /\ engine' = Some(NewEngine(engines))
    /\ engines' = engines + 1
    /\ calls' = Append(calls,
           [fn |-> "make_compiling_engine", idx |-> idx,
            engine |-> NewEngine(engines)])
    /\ pc' = "compile"
    /\ UNCHANGED <<args, fs, exit_code, wasm_limits, available_capabilities,
                   idx, wasm, result, passes, failures, stdout, stderr, run,
                   prev, outcomes>>

\* What check_contract returns once the compilation returned c.
CheckContractResult(c) == IF c.ok THEN Ok ELSE c

\* check_contract, lines 164-166: compile(&engine, &wasm)?; Ok(())
Compile ==
    /\ pc = "compile"
    /\ calls' = Append(calls,
           [fn |-> "compile", idx |-> idx, engine |-> Unwrap(engine)])
    /\ result' = Some(CheckContractResult(compile(Unwrap(engine), Unwrap(wasm))))
    /\ wasm' = None
    /\ engine' = None
    /\ pc' = "report"
    /\ UNCHANGED <<args, fs, exit_code, wasm_limits, available_capabilities,
                   idx, passes, failures, stdout, stderr, engines, run, prev, outcomes>>

\* A report that prints the status of a failure without println!("{e}").
StatusLinesNoDiagnostic(p, res) ==
    <<[kind |-> "status", path |-> p,
       status |-> IF res.ok THEN "pass" ELSE "failure"]>>

\* main, lines 97-103: the lines printed for a file's result.
StatusLines(p, res) ==
    IF res.ok
    THEN <<[kind |-> "status", path |-> p, status |-> "pass"]>>
    ELSE <<[kind |-> "status", path |-> p, status |-> "failure"],
           [kind |-> "diagnostic", msg |-> res.msg]>>

\* A batch that checks the first path only.
AfterClosureFirstOnly(res, i, n) == "summary"

\* A batch that ends at the first failure.
AfterClosureStopOnFailure(res, i, n) ==
    IF res.ok /\ i < n THEN "open" ELSE "summary"

\* The position of main once the closure has returned res for file i of n:
\* partition asks the iterator for the next path until there is none.
AfterClosure(res, i, n) == IF i < n THEN "open" ELSE "summary"

\* main, lines 97-106: print the result; partition puts it among the passes
\* or the failures and moves on.
Report ==
    /\ pc = "report"
    /\ LET res == Unwrap(result)
       IN  /\ stdout' = stdout \o StatusLines(Path, res)
           /\ IF res.ok
              THEN passes' = Append(passes, res) /\ UNCHANGED failures
              ELSE failures' = Append(failures, res) /\ UNCHANGED passes
           /\ pc' = AfterClosure(res, idx, Len(args.WASM))
    /\ outcomes' = Append(outcomes, Unwrap(result))
    /\ idx' = idx + 1
    /\ result' = None
    /\ UNCHANGED <<args, fs, exit_code, wasm_limits, available_capabilities,
                   wasm, engine, stderr, calls, engines, run, prev>>

\* A summary with the two counts exchanged.
SummaryLineSwapped(ps, fl) ==
    IF fl = <<>>
    THEN [kind |-> "all_passed", n |-> Len(ps)]
    ELSE [kind |-> "counts", passes |-> Len(fl), failures |-> Len(ps)]

\* main, lines 109-124: the summary line.
SummaryLine(ps, fl) ==
    IF fl = <<>>
    THEN [kind |-> "all_passed", n |-> Len(ps)]
    ELSE [kind |-> "counts", passes |-> Len(ps), failures |-> Len(fl)]

\* A main that never calls exit(1).
ExitStatusAlwaysZero(ps, fl) == 0

\* main, lines 109-125: exit(1) when there are failures; else main returns
\* and the process ends with 0.
ExitStatus(ps, fl) == IF fl = <<>> THEN 0 ELSE 1

\* main, lines 107-125.
Summary ==
    /\ pc = "summary"
    /\ stdout' = stdout \o <<[kind |-> "blank"], SummaryLine(passes, failures)>>
    /\ Exit(ExitStatus(passes, failures))
    /\ UNCHANGED <<args, fs, wasm_limits, available_capabilities, idx, wasm,
                   engine, result, passes, failures, stderr, calls, engines,
                   run, prev, outcomes>>

\* What a run that has ended leaves to be seen.
Observation ==
    [ args |-> args, exit_code |-> exit_code, stdout |-> stdout,
      stderr |-> stderr, passes |-> passes, failures |-> failures,
      outcomes |-> outcomes,
      wasm_limits |-> wasm_limits,
      available_capabilities |-> available_capabilities ]

\* The orders in which the same paths can be given.
Reorderings(paths) ==
    {[i \in 1..Len(paths) |-> paths[f[i]]] : f \in Permutations(1..Len(paths))}

\* A second process that finds the failures of the first still in place.
RerunCarriesFailures ==
    /\ pc = "exited"
    /\ run = 1
    /\ run' = 2
    /\ prev' = Some(Observation)
    /\ \E v \in BOOLEAN, w \in Reorderings(args.WASM) :
          args' = [args EXCEPT !.VERBOSE = v, !.WASM = w]
    /\ pc' = "start"
    /\ exit_code' = None
    /\ wasm_limits' = None
    /\ available_capabilities' = None
    /\ idx' = 0
    /\ wasm' = None
    /\ engine' = None
    /\ result' = None
    /\ passes' = <<>>
    /\ stdout' = <<>>
    /\ stderr' = <<>>
    /\ outcomes' = <<>>
    /\ calls' = <<>>
    /\ engines' = 0
    /\ UNCHANGED <<fs, failures>>

\* The tool is started again on the same files, in the same order or
\* another, and the same policy source, with --verbose as before or not: a
\* new process, the same file system.
Rerun ==
    /\ pc = "exited"
    /\ run = 1
    /\ run' = 2
    /\ prev' = Some(Observation)
    /\ \E v \in BOOLEAN, w \in Reorderings(args.WASM) :
          args' = [args EXCEPT !.VERBOSE = v, !.WASM = w]
    /\ pc' = "start"
    /\ exit_code' = None
    /\ wasm_limits' = None
    /\ available_capabilities' = None
    /\ idx' = 0
    /\ wasm' = None
    /\ engine' = None
    /\ result' = None
    /\ passes' = <<>>
    /\ failures' = <<>>
    /\ stdout' = <<>>
    /\ stderr' = <<>>
    /\ outcomes' = <<>>
    /\ calls' = <<>>
    /\ engines' = 0
    /\ UNCHANGED fs

Next ==
    \/ GetMatches
    \/ ResolvePolicy
    \/ PrintCapabilities
    \/ OpenWasm
    \/ ReadWasm
    \/ CheckWasm
    \/ MakeEngine
    \/ Compile
    \/ Report
    \/ Summary
    \/ Rerun

Spec == Init /\ [][Next]_vars

\* The steps of one process.  main is one thread and each of its steps
\* returns, so a process that can take a step takes it.
Step ==
    \/ GetMatches
    \/ ResolvePolicy
    \/ PrintCapabilities
    \/ OpenWasm
    \/ ReadWasm
    \/ CheckWasm
    \/ MakeEngine
    \/ Compile
    \/ Report
    \/ Summary

FairSpec == Spec /\ WF_vars(Step)

(***************************************************************************)
(* Properties.                                                             *)
(***************************************************************************)
Ended == pc = "exited"
PastResolution == IsSome(wasm_limits) /\ IsSome(available_capabilities)
NumFiles == Len(args.WASM)
Files == 1..NumFiles

Lines(out, kind) == SelectSeq(out, LAMBDA l : l.kind = kind)
NumPassed == Cardinality({i \in 1..Len(outcomes) : outcomes[i].ok})
NumFailed == Cardinality({i \in 1..Len(outcomes) : ~outcomes[i].ok})
CallsOf(fn, i) == {j \in 1..Len(calls) : calls[j].fn = fn /\ calls[j].idx = i}

\* C1: a run that got past policy resolution ends with exit code 0 if and
\* only if every file passed, and with 1 if some file failed.
C1_ExitCode ==
    (Ended /\ PastResolution) =>
        /\ Len(outcomes) = NumFiles
        /\ (exit_code = Some(0)) <=> (\A i \in Files : outcomes[i].ok)
        /\ (\E i \in Files : ~outcomes[i].ok) => exit_code = Some(1)

C1_Witness ==
    /\ Ended /\ PastResolution
    /\ NumFiles = 2
    /\ outcomes[1].ok /\ ~outcomes[2].ok
    /\ exit_code = Some(1)

\* C2: a failure of check_contract on one file never stops the batch: at
\* the end every file, in command-line order, has been checked once and has
\* exactly one status line, pass or failure, whatever the files before it
\* did.
C2_BatchNeverStops ==
    (Ended /\ PastResolution) =>
        LET st == Lines(stdout, "status")
        IN  /\ Len(st) = NumFiles
            /\ \A i \in Files :
                  /\ st[i].path = args.WASM[i]
                  /\ st[i].status = IF outcomes[i].ok THEN "pass" ELSE "failure"
                  /\ Cardinality(CallsOf("File::open", i)) = 1

C2_Witness ==
    /\ Ended /\ PastResolution
    /\ NumFiles = 2
    /\ ~outcomes[1].ok
    /\ Len(Lines(stdout, "status")) = 2
    /\ Lines(stdout, "status")[1].status = "failure"
    /\ Lines(stdout, "status")[2].status = "pass"

\* C3: after all N files the pass count P is the number of checks that
\* returned success, the failure count F the number that returned an error,
\* P + F = N; "All contracts (N) passed checks!" is printed exactly when
\* F = 0, otherwise "Passes: P, failures: F" is printed.
C3_Summary ==
    (Ended /\ PastResolution) =>
        /\ Len(passes) = NumPassed
        /\ Len(failures) = NumFailed
        /\ Len(passes) + Len(failures) = NumFiles
        /\ Len(Lines(stdout, "all_passed")) + Len(Lines(stdout, "counts")) = 1
        /\ stdout[Len(stdout)].kind \in {"all_passed", "counts"}
        /\ IF NumFailed = 0
           THEN stdout[Len(stdout)] = [kind |-> "all_passed", n |-> NumFiles]
           ELSE stdout[Len(stdout)] =
                    [kind |-> "counts", passes |-> NumPassed,
                     failures |-> NumFailed]

C3_Witness ==
    /\ Ended /\ PastResolution
    /\ NumFiles = 2
    /\ stdout[Len(stdout)] = [kind |-> "counts", passes |-> 1, failures |-> 1]

\* C4: with both --available-capabilities and --wasm-config the run is a
\* usage error before the policy is resolved and before any file I/O: no
\* file is opened, no file is checked, nothing is printed.
C4_ConflictRejected ==
    (IsSome(args.CONFIG) /\ IsSome(args.CAPABILITIES)) =>
        /\ pc \in {"start", "exited"}
        /\ calls = <<>>
        /\ ~PastResolution
        /\ outcomes = <<>>
        /\ stdout = <<>>
        /\ Ended => (exit_code = Some(2) /\ Lines(stderr, "usage") # <<>>)

C4_Witness ==
    /\ IsSome(args.CONFIG) /\ IsSome(args.CAPABILITIES)
    /\ NumFiles > 0
    /\ fs[Unwrap(args.CONFIG)].kind = "file"
    /\ Ended
    /\ exit_code = Some(2)

\* A configuration file that cannot be opened, or whose bytes do not decode.
BadConfig ==
    /\ IsSome(args.CONFIG)
    /\ \/ fs[Unwrap(args.CONFIG)].kind = "missing"
       \/ fs[Unwrap(args.CONFIG)].bytes.fmt # "msgpack"

\* C5: with a configuration file that cannot be opened or decoded the run
\* aborts with a non-zero exit status and zero files checked: no call of
\* check_contract, no status line, no summary line.
C5_BadConfigAborts ==
    BadConfig =>
        /\ pc \in {"start", "resolve", "exited"}
        /\ \A j \in 1..Len(calls) : calls[j].idx = 0
        /\ outcomes = <<>> /\ passes = <<>> /\ failures = <<>>
        /\ stdout = <<>>
        /\ Ended => (IsSome(exit_code) /\ exit_code # Some(0))

C5_Witness ==
    /\ BadConfig
    /\ ~IsSome(args.CAPABILITIES)
    /\ fs[Unwrap(args.CONFIG)].kind = "file"
    /\ NumFiles > 0
    /\ Ended
    /\ exit_code = Some(101)
    /\ Lines(stderr, "panic") # <<>>

\* The verdict of the validation call recorded as calls[j].
Verdict(j) ==
    check_wasm_with_limits(calls[j].args.wasm,
                           calls[j].args.available_capabilities,
                           calls[j].args.wasm_limits, calls[j].args.logs)

\* What the files and the policy make of file i: it passes if and only if it
\* can be read, validates and compiles.
ShouldPass(i) ==
    /\ fs[args.WASM[i]].kind = "file"
    /\ check_wasm_with_limits(fs[args.WASM[i]].bytes,
                              Unwrap(available_capabilities),
                              Unwrap(wasm_limits), [on |-> FALSE]).ok
    /\ compile(0, fs[args.WASM[i]].bytes).ok

\* C6: in check_contract the validation runs before the compilation, the
\* compilation is attempted only after a successful validation of the same
\* file, a failed validation is followed by no engine and no compile call,
\* and the outcome is success if and only if read, validation and
\* compilation all succeeded.
C6_ValidateThenCompile ==
    /\ \A j \in 1..Len(calls) :
          calls[j].fn \in {"make_compiling_engine", "compile"} =>
              \E k \in 1..(j - 1) :
                  /\ calls[k].fn = "check_wasm_with_limits"
                  /\ calls[k].idx = calls[j].idx
                  /\ Verdict(k).ok
    /\ \A k \in 1..Len(calls) :
          (calls[k].fn = "check_wasm_with_limits" /\ ~Verdict(k).ok) =>
              /\ CallsOf("make_compiling_engine", calls[k].idx) = {}
              /\ CallsOf("compile", calls[k].idx) = {}
    /\ \A i \in 1..Len(outcomes) : outcomes[i].ok <=> ShouldPass(i)

C6_Witness ==
    /\ Ended /\ PastResolution
    /\ NumFiles = 2
    /\ outcomes[1].ok
    /\ ~outcomes[2].ok /\ outcomes[2].kind = "ValidationError"
    /\ CallsOf("compile", 1) # {}
    /\ CallsOf("check_wasm_with_limits", 2) # {}

\* The calls that resolve the policy.
ResolutionCalls ==
    {j \in 1..Len(calls) :
        calls[j].fn \in {"rmp_serde::from_read", "capabilities_from_csv"}}

\* C7: the (WasmLimits, capability set) pair is resolved exactly once per
\* run, before the first file is checked, is never modified afterwards, and
\* the same pair is passed to the check of every file.
C7_OnePolicyPerRun ==
    /\ Cardinality(ResolutionCalls) <= 1
    /\ PastResolution =>
          /\ Cardinality(ResolutionCalls) = 1
          /\ <<Unwrap(wasm_limits), Unwrap(available_capabilities)>>
                 = ResolvedPolicy(args)
    /\ \A j \in 1..Len(calls) :
          calls[j].idx >= 1 =>
              /\ PastResolution
              /\ \A r \in ResolutionCalls : r < j
              /\ calls[j].fn = "check_wasm_with_limits" =>
                    /\ calls[j].args.wasm_limits = Unwrap(wasm_limits)
                    /\ calls[j].args.available_capabilities
                           = Unwrap(available_capabilities)

C7_Witness ==
    /\ Ended /\ PastResolution
    /\ IsSome(args.CONFIG)
    /\ Unwrap(wasm_limits) # WasmLimitsDefault
    /\ NumFiles = 2
    /\ CallsOf("check_wasm_with_limits", 1) # {}
    /\ CallsOf("check_wasm_with_limits", 2) # {}

\* The fixed default capability list, name by name.
FixedDefaultCapabilities ==
    { <<"i","t","e","r","a","t","o","r">>,
      <<"s","t","a","k","i","n","g">>,
      <<"s","t","a","r","g","a","t","e">>,
      <<"c","o","s","m","w","a","s","m","_","1","_","1">>,
      <<"c","o","s","m","w","a","s","m","_","1","_","2">>,
      <<"c","o","s","m","w","a","s","m","_","1","_","3">>,
      <<"c","o","s","m","w","a","s","m","_","1","_","4">>,
      <<"c","o","s","m","w","a","s","m","_","2","_","0">>,
      <<"c","o","s","m","w","a","s","m","_","2","_","1">> }

\* The comma-separated tokens of a CSV: its maximal comma-free stretches,
\* each between a comma (or the start) and a comma (or the end).
TokensOf(csv) ==
    LET n == Len(csv)
        stretches ==
            { p \in (1..(n + 1)) \X (0..n) :
                /\ p[2] >= p[1] - 1
                /\ p[1] = 1 \/ csv[p[1] - 1] = ","
                /\ p[2] = n \/ csv[p[2] + 1] = ","
                /\ \A k \in p[1]..p[2] : csv[k] # "," }
    IN  {SubSeq(csv, p[1], p[2]) : p \in stretches}

\* C8: the resolved policy is the configuration file's wasm_limits and
\* cache.available_capabilities when a file is given; the default limits
\* and the set parsed from the CSV when only a CSV is given; the default
\* limits and the fixed default capability list when neither is given.
C8_PolicySources ==
    PastResolution =>
        IF IsSome(args.CONFIG)
        THEN LET config == fs[Unwrap(args.CONFIG)].bytes.config
             IN  /\ Unwrap(wasm_limits) = config.wasm_limits
                 /\ Unwrap(available_capabilities)
                        = config.cache.available_capabilities
        ELSE /\ Unwrap(wasm_limits) = WasmLimitsDefault
             /\ Unwrap(available_capabilities) =
                    IF IsSome(args.CAPABILITIES)
                    THEN TokensOf(Unwrap(args.CAPABILITIES))
                    ELSE FixedDefaultCapabilities

C8_Witness ==
    /\ PastResolution
    /\ IsSome(args.CONFIG)
    /\ Unwrap(wasm_limits) = [initial_memory_limit_pages |-> 3]
    /\ Unwrap(available_capabilities) = {<<"a">>, <<"b">>}
    /\ outcomes # <<>>

\* The tokens joined with commas.
RECURSIVE Join(_)
Join(tokens) ==
    IF Len(tokens) = 0 THEN <<>>
    ELSE IF Len(tokens) = 1 THEN tokens[1]
    ELSE tokens[1] \o <<",">> \o Join(Tail(tokens))

\* C9: the capability set resolved from a CSV is exactly the set of its
\* distinct comma-separated tokens; the CSV with its tokens permuted, or
\* with one of them repeated, yields the same set.
C9_CsvTokens ==
    (pc = "print_capabilities" /\ IsSome(args.CAPABILITIES)) =>
        LET csv == Unwrap(args.CAPABILITIES)
            tokens == Split(csv)
            n == Len(tokens)
            resolved == Unwrap(available_capabilities)
        IN  /\ resolved = TokensOf(csv)
            /\ Join(tokens) = csv
            /\ \A f \in Permutations(1..n) :
                  capabilities_from_csv(Join([i \in 1..n |-> tokens[f[i]]]))
                      = resolved
            /\ \A i \in 1..n :
                  capabilities_from_csv(csv \o <<",">> \o tokens[i]) = resolved

C9_Witness ==
    /\ pc = "print_capabilities"
    /\ IsSome(args.CAPABILITIES)
    /\ Len(Split(Unwrap(args.CAPABILITIES))) = 3
    /\ Cardinality(Unwrap(available_capabilities)) = 2

\* C10: --verbose has no part in the outcome: a second run on the same
\* files and policy that differs only in --verbose gives the same outcome
\* for every file, the same summary counts and the same exit code; and with
\* --verbose off the validation gets the no-op logger and no diagnostic
\* line reaches the error stream.
C10_VerboseNoEffect ==
    /\ (/\ run = 2 /\ Ended
        /\ args.VERBOSE # Unwrap(prev).args.VERBOSE
        /\ args.WASM = Unwrap(prev).args.WASM) =>
          /\ outcomes = Unwrap(prev).outcomes
          /\ Lines(stdout, "status") = Lines(Unwrap(prev).stdout, "status")
          /\ Len(passes) = Len(Unwrap(prev).passes)
          /\ Len(failures) = Len(Unwrap(prev).failures)
          /\ stdout = Unwrap(prev).stdout
          /\ exit_code = Unwrap(prev).exit_code
    /\ ~args.VERBOSE =>
          /\ Lines(stderr, "log") = <<>>
          /\ \A j \in 1..Len(calls) :
                calls[j].fn = "check_wasm_with_limits" =>
                    calls[j].args.logs = [on |-> FALSE]

C10_Witness ==
    /\ run = 2 /\ Ended /\ PastResolution
    /\ ~args.VERBOSE /\ Unwrap(prev).args.VERBOSE
    /\ args.WASM = Unwrap(prev).args.WASM
    /\ NumFiles = 2
    /\ Len(Lines(Unwrap(prev).stderr, "log")) = 2
    /\ stderr = <<>>
    /\ outcomes[1].ok /\ ~outcomes[2].ok
    /\ outcomes = Unwrap(prev).outcomes

\* The place in stdout of the status line of file i.
StatusPos(i) ==
    CHOOSE j \in 1..Len(stdout) :
        /\ stdout[j].kind = "status"
        /\ Cardinality({k \in 1..j : stdout[k].kind = "status"}) = i

\* The diagnostic printed for file i: the line after its status line.
Diagnostic(i) == stdout[StatusPos(i) + 1]

\* File i can be read and passes the static validation.
Validates(i) ==
    /\ fs[args.WASM[i]].kind = "file"
    /\ check_wasm_with_limits(fs[args.WASM[i]].bytes,
                              Unwrap(available_capabilities),
                              Unwrap(wasm_limits), [on |-> FALSE]).ok

\* C11: a file that passes the static validation and fails the compilation
\* is reported as a failure of the compilation step: the reason recorded
\* and printed for it is the compile error, and differs from the reason
\* recorded and printed for any file that failed the validation.
C11_CompileFailureTold ==
    \A i \in 1..Len(outcomes) :
        (Validates(i) /\ ~compile(0, fs[args.WASM[i]].bytes).ok) =>
            /\ ~outcomes[i].ok
            /\ outcomes[i] = compile(0, fs[args.WASM[i]].bytes)
            /\ outcomes[i].kind = "CompileError"
            /\ stdout[StatusPos(i)].status = "failure"
            /\ Len(stdout) > StatusPos(i)
            /\ Diagnostic(i) = [kind |-> "diagnostic", msg |-> outcomes[i].msg]
            /\ \A k \in 1..Len(outcomes) :
                  (fs[args.WASM[k]].kind = "file" /\ ~Validates(k)) =>
                      /\ ~outcomes[k].ok
                      /\ outcomes[k].kind = "ValidationError"
                      /\ Diagnostic(k).kind = "diagnostic"
                      /\ Diagnostic(k).msg # Diagnostic(i).msg

C11_Witness ==
    /\ Ended /\ PastResolution
    /\ NumFiles = 2
    /\ ~outcomes[1].ok /\ outcomes[1].kind = "ValidationError"
    /\ ~outcomes[2].ok /\ outcomes[2].kind = "CompileError"
    /\ Diagnostic(2).msg = "Error compiling Wasm: Could not compile"

EngineCalls(i) ==
    CallsOf("check_wasm_with_limits", i)
        \cup CallsOf("make_compiling_engine", i) \cup CallsOf("compile", i)

\* C13: a file that cannot be opened or fully read fails before the
\* validation step: neither validation nor compilation is called for it, it
\* is printed as a failure and counted among the failures, and the files
\* after it are still checked.
C13_UnreadableFileFails ==
    /\ \A j \in 1..Len(calls) :
          (calls[j].idx >= 1 /\ calls[j].fn \notin {"File::open", "read_to_end"})
              => fs[args.WASM[calls[j].idx]].kind = "file"
    /\ \A i \in 1..Len(outcomes) :
          fs[args.WASM[i]].kind # "file" =>
              /\ EngineCalls(i) = {}
              /\ ~outcomes[i].ok
              /\ outcomes[i].kind = "IoError"
              /\ stdout[StatusPos(i)] =
                     [kind |-> "status", path |-> args.WASM[i],
                      status |-> "failure"]
              /\ \E k \in 1..Len(failures) : failures[k] = outcomes[i]
              /\ Len(failures) >=
                     Cardinality({k \in 1..Len(outcomes) :
                                     fs[args.WASM[k]].kind # "file"})
    /\ (Ended /\ PastResolution) =>
          /\ Len(outcomes) = NumFiles
          /\ \A i \in Files : CallsOf("File::open", i) # {}

C13_Witness ==
    /\ Ended /\ PastResolution
    /\ NumFiles = 2
    /\ fs[args.WASM[1]].kind = "dir"
    /\ fs[args.WASM[2]].kind = "file"
    /\ ~outcomes[1].ok /\ outcomes[2].ok
    /\ CallsOf("read_to_end", 1) # {}
    /\ CallsOf("compile", 2) # {}

\* main is inside the check of a file, or about to report it.
InFile == pc \in {"open", "read", "check_wasm", "make_engine", "compile", "report"}

\* The summary lines printed.
SummaryLines == Lines(stdout, "all_passed") \o Lines(stdout, "counts")

\* C14: the output is streamed in order: the capabilities line is printed
\* before any file is checked; while file i is being checked the status
\* lines of the files 1..i-1, and no others, are out; the status lines
\* follow the command-line order; and the summary line comes only after
\* every file has its outcome and its status line.
C14_StreamedInOrder ==
    /\ (InFile \/ \E j \in 1..Len(calls) : calls[j].idx >= 1) =>
          /\ stdout # <<>>
          /\ stdout[1].kind = "capabilities"
    /\ InFile =>
          /\ Len(Lines(stdout, "status")) = idx - 1
          /\ Len(outcomes) = idx - 1
          /\ \A j \in 1..Len(calls) : calls[j].idx <= idx
          /\ SummaryLines = <<>>
    /\ Len(Lines(stdout, "status")) = Len(outcomes)
    /\ \A i \in 1..Len(Lines(stdout, "status")) :
          /\ i <= NumFiles
          /\ Lines(stdout, "status")[i].path = args.WASM[i]
    /\ SummaryLines # <<>> =>
          /\ Len(outcomes) = NumFiles
          /\ Len(Lines(stdout, "status")) = NumFiles
          /\ stdout[Len(stdout)] = SummaryLines[1]
          /\ Len(SummaryLines) = 1

C14_Witness ==
    /\ pc = "check_wasm"
    /\ idx = 2
    /\ args.WASM[1] # args.WASM[2]
    /\ stdout[1].kind = "capabilities"
    /\ Len(Lines(stdout, "status")) = 1
    /\ Lines(stdout, "status")[1].path = args.WASM[1]

\* What a file in state f comes to under the policy, whatever else the
\* command line names: the first step that fails, or success.
OutcomeOf(f, caps, limits) ==
    IF f.kind = "missing"
    THEN Err("IoError", "No such file or directory (os error 2)")
    ELSE IF f.kind = "dir"
    THEN Err("IoError", "Is a directory (os error 21)")
    ELSE IF ~check_wasm_with_limits(f.bytes, caps, limits, [on |-> FALSE]).ok
    THEN check_wasm_with_limits(f.bytes, caps, limits, [on |-> FALSE])
    ELSE IF ~compile(0, f.bytes).ok THEN compile(0, f.bytes)
    ELSE Ok

\* The calls that name an engine.
EngineUses ==
    {j \in 1..Len(calls) : calls[j].fn \in {"make_compiling_engine", "compile"}}

\* C15: each file is compiled on an engine created during its own check
\* and used for no other file, and a check starts with nothing left of the
\* one before; so the outcome of a file is a function of its bytes and the
\* resolved policy alone, and the same files given in another order get the
\* same outcome each, the same counts and the same exit code.
C15_IndependentChecks ==
    /\ \A j \in EngineUses :
          calls[j].fn = "compile" =>
              \E k \in 1..(j - 1) :
                  /\ calls[k].fn = "make_compiling_engine"
                  /\ calls[k].idx = calls[j].idx
                  /\ calls[k].engine = calls[j].engine
    /\ \A j, k \in EngineUses :
          calls[j].engine = calls[k].engine => calls[j].idx = calls[k].idx
    /\ pc = "open" => (wasm = None /\ engine = None /\ result = None)
    /\ \A i \in 1..Len(outcomes) :
          outcomes[i] = OutcomeOf(fs[args.WASM[i]],
                                  Unwrap(available_capabilities),
                                  Unwrap(wasm_limits))
    /\ (run = 2 /\ Ended) =>
          /\ \A i \in 1..Len(outcomes), k \in 1..Len(Unwrap(prev).outcomes) :
                args.WASM[i] = Unwrap(prev).args.WASM[k] =>
                    outcomes[i] = Unwrap(prev).outcomes[k]
          /\ Len(outcomes) = Len(Unwrap(prev).outcomes)
          /\ Len(passes) = Len(Unwrap(prev).passes)
          /\ Len(failures) = Len(Unwrap(prev).failures)
          /\ exit_code = Unwrap(prev).exit_code

C15_Witness ==
    /\ run = 2 /\ Ended /\ PastResolution
    /\ NumFiles = 2
    /\ args.WASM # Unwrap(prev).args.WASM
    /\ CallsOf("compile", 1) # {} /\ CallsOf("compile", 2) # {}
    /\ outcomes[1].ok /\ ~outcomes[2].ok
    /\ ~Unwrap(prev).outcomes[1].ok /\ Unwrap(prev).outcomes[2].ok

\* The state of file i in the per-file state machine
\* Unchecked -> Validating -> Compiling -> Passed | Failed.
FileState(i) ==
    IF i <= Len(outcomes)
    THEN IF outcomes[i].ok THEN "Passed" ELSE "Failed"
    ELSE IF i = idx /\ pc = "report"
    THEN IF Unwrap(result).ok THEN "Passed" ELSE "Failed"
    ELSE IF i = idx /\ pc = "check_wasm" THEN "Validating"
    ELSE IF i = idx /\ pc \in {"make_engine", "compile"} THEN "Compiling"
    ELSE "Unchecked"

\* The moves of the per-file state machine.
FileMoves ==
    { <<"Unchecked", "Validating">>, <<"Unchecked", "Failed">>,
      <<"Validating", "Compiling">>, <<"Validating", "Failed">>,
      <<"Compiling", "Passed">>, <<"Compiling", "Failed">> }

\* Every file of an ended run is in a terminal state, and no step of a
\* check was taken twice for a file.
CheckedOnce ==
    /\ (Ended /\ PastResolution) =>
          \A i \in Files : FileState(i) \in {"Passed", "Failed"}
    /\ \A i \in Files :
          \A fn \in {"File::open", "read_to_end", "check_wasm_with_limits",
                     "make_compiling_engine", "compile"} :
              Cardinality(CallsOf(fn, i)) <= 1

\* Within a run a file stays where it is or makes one move of the machine;
\* a terminal state has no move.
FileStep ==
    run' = run =>
        \A i \in Files :
            \/ FileState(i)' = FileState(i)
            \/ <<FileState(i), FileState(i)'>> \in FileMoves

\* C16: every run over a finite list of files terminates; at the end of a
\* run that got past policy resolution every file went through the per-file
\* state machine exactly once and is Passed or Failed: no file is checked
\* twice, no terminal state is left, no file stays Unchecked, Validating or
\* Compiling.
C16_RunTerminates ==
    /\ []CheckedOnce
    /\ [][FileStep]_vars
    /\ (pc = "start") ~> Ended

C16_Witness ==
    /\ run = 2 /\ Ended /\ PastResolution
    /\ NumFiles = 2
    /\ FileState(1) = "Failed" /\ FileState(2) = "Passed"
    /\ CallsOf("compile", 2) # {}

\* C17: the batch only ever runs with at least one input file: a command
\* line without a WASM path is a usage error before the policy is resolved,
\* so "All contracts (0) passed checks!" with exit code 0 is never reached.
C17_AtLeastOneFile ==
    /\ args.WASM = <<>> =>
          /\ pc \in {"start", "exited"}
          /\ ~PastResolution
          /\ calls = <<>>
          /\ stdout = <<>>
          /\ Ended => (exit_code = Some(2) /\ Lines(stderr, "usage") # <<>>)
    /\ PastResolution => NumFiles >= 1
    /\ \A j \in 1..Len(stdout) :
          stdout[j].kind = "all_passed" => stdout[j].n >= 1
    /\ exit_code = Some(0) => NumFiles >= 1

C17_Witness ==
    /\ args.WASM = <<>>
    /\ ~IsSome(args.CONFIG)
    /\ Ended
    /\ exit_code = Some(2)
    /\ stdout = <<>>
====
